---- MODULE Spec2Model ----
(***************************************************************************)
(* The sample store of ML-and-Absorption-Spectroscopy: ingestion of AS7341 *)
(* CSV rows into the HDF5 container (script.py) and the read-back queries  *)
(* list_samples / plot_samples (plotting.py).                              *)
(*                                                                         *)
(* The container is modelled as h5py presents it: a file that may or may   *)
(* not exist, an optional root group "samples", and under it a mapping     *)
(* from group name to a group holding named datasets and attributes.       *)
(* Timestamps are slash-free, so that one timestamp names one child group. *)
(***************************************************************************)
EXTENDS Integers, Sequences, FiniteSets, TLC

\* ---------------------------------------------------------------- bounds
NumTimes == 3   \* distinct values of the CSV "time" column
MaxSel   == 2   \* samples selected for one plot

\* ------------------------------------------------------- program constants
\* script.py:14
AS7341_WAVELENGTHS == <<415, 445, 480, 515, 555, 590, 630, 680, 850, 940>>

\* script.py:66-68, the ten channel columns in the order they are read
ChannelColumns ==
    <<"415nm_F1", "445nm_F2", "480nm_F3", "515nm_F4", "555nm_F5",
      "590nm_F6", "630nm_F7", "680nm_F8", "CLEAR", "NIR">>

Range(s) == {s[i] : i \in DOMAIN s}

\* the header of a well-formed AS7341 CSV file: "time" plus the ten channels
RequiredColumns == {"time"} \cup Range(ChannelColumns)

\* ------------------------------------------------------------------ inputs
Times     == 1..NumTimes
Readings  == {7}
\* headers a CSV file can come with: complete, without "time", without "NIR"
Layouts   == {RequiredColumns, RequiredColumns \ {"time"}, RequiredColumns \ {"NIR"}}
DataTypes == {"2", "3"}
\* raw console answers to the y/n prompt and their strip().lower() form
Answers   == {"y", " Y ", "n", ""}
MetaKeys  == {"Timestamp", "note"}
MetaValues == {"x"}

\* str(row["time"]) for an integer cell                        script.py:57
Str(t) == ToString(t)

AllKeys == {Str(t) : t \in Times}

\* .astype(float): an int64 cell becomes a float64 of the same value
AsFloat(v) == <<"float64", v>>

\* input(...).strip().lower()                                  script.py:85
StripLower(a) ==
    CASE a = "y"   -> "y"
      [] a = " Y " -> "y"
      [] a = "n"   -> "n"
      [] OTHER     -> ""

\* one row of a DataFrame read from a file with header `cols`
Row(t, v, cols) == [c \in cols |-> IF c = "time" THEN t ELSE v]

\* ------------------------------------------------------------- h5py model
EmptyFn == [x \in {} |-> x]

\* a freshly created group: no datasets, no attributes
EmptyGroup == [ds |-> EmptyFn, attrs |-> EmptyFn]

\* f[name] = value on a mapping (create or replace)
Put(f, name, value) ==
    [x \in DOMAIN f \cup {name} |-> IF x = name THEN value ELSE f[x]]

\* sample_group.create_dataset(name, data=data)
CreateDataset(group, name, data) == [group EXCEPT !.ds = Put(@, name, data)]

\* sample_group.attrs[name] = value
SetAttr(group, name, value) == [group EXCEPT !.attrs = Put(@, name, value)]

\* a sample as the spectrophotometer source stores it (view_samples reads
\* Wavelengths, Absorption and Transmission of such groups)
SpectroSample(k) ==
    [ds    |-> ("Wavelengths"  :> <<400, 401>>) @@
               ("Absorption"   :> <<AsFloat(0), AsFloat(1)>>) @@
               ("Transmission" :> <<AsFloat(1), AsFloat(0)>>),
     attrs |-> ("Timestamp" :> k)]

\* the duplicate test with its condition lost
GroupExistsNever(st, k) == FALSE

\* `group_name in hdf5_file` for group_name = /samples/<k>    script.py:60
GroupExists(st, k) == k \in DOMAIN st

\* the extraction with the last channel column left out
ExtractIntensitiesNoNIR(row) ==
    [i \in 1..(Len(ChannelColumns) - 1) |-> AsFloat(row[ChannelColumns[i]])]

\* np.array([row[c] for the ten channel columns]).astype(float)
\*                                                         script.py:65-69
ExtractIntensities(row) ==
    [i \in 1..Len(ChannelColumns) |-> AsFloat(row[ChannelColumns[i]])]

\* the bookkeeping with insert(0, ...) in place of append
AppendSampleFront(added, ts) == <<ts>> \o added

\* added_samples.append(timestamp)                            script.py:77
AppendSample(added, ts) == Append(added, ts)

\* what add_metadata returns for the normalised answer add_meta
AddMetadataReturn(add_meta) == add_meta = "y"

\* ------------------------------------------------------------------ state
VARIABLES
    fileExists,        \* os.path.exists(hdf5_file)
    hasSamples,        \* "samples" in hdf5_file
    store,             \* hdf5_file["samples"]: group name -> group
    pc,                \* position of add_samples_from_csv, or how it ended
    data_type,         \* argument data_type
    columns,           \* header of the DataFrame being iterated
    timestamp,         \* local `timestamp`
    intensities,       \* local `intensities`
    added_samples,     \* local `added_samples`
    metadata_updates,  \* local `metadata_updates`
    store0,            \* history: keys stored when this run opened the file
    firstNew,          \* history: keys of the rows read in this run that were
                       \* neither stored at its start nor read before, in order
    skipReported,      \* history: line 61 has reported a skip in this run
    pairWritten,       \* history: line 94 has written a pair in this run
    listResult,        \* what the last list_samples call returned
    plotResult         \* what the last plot_samples call did

vars == <<fileExists, hasSamples, store, pc, data_type, columns, timestamp,
          intensities, added_samples, metadata_updates, store0, firstNew,
          skipReported, pairWritten, listResult, plotResult>>

containerVars == <<fileExists, hasSamples, store>>

\* the `with h5py.File(...)` block is not open
Closed == pc \in {"idle", "returned", "KeyError", "ValueError", "KeyboardInterrupt"}

NotCalled == [status |-> "not called"]

\* --------------------------------------------------------------- queries
RECURSIVE SortedSeq(_)
\* h5py enumerates the children of a group by name; the names are the
\* one-digit strings Str(t), whose order is that of the numbers t
SortedSeq(S) ==
    IF S = {} THEN <<>>
    ELSE LET m == CHOOSE x \in S : \A y \in S : x <= y
         IN  <<m>> \o SortedSeq(S \ {m})

KeysOf(st) == [i \in 1..Cardinality(DOMAIN st) |->
                 Str(SortedSeq({t \in Times : Str(t) \in DOMAIN st})[i])]

\* list(hdf5_file["samples"].keys()): the lookup of a group that is not in
\* the file raises KeyError
SamplesKeys(samples, st) ==
    IF samples THEN [status |-> "ok", keys |-> KeysOf(st)]
    ELSE [status |-> "KeyError", keys |-> <<>>]

\* list_samples without the test of line 28
list_samples_unguarded(exists, samples, st) ==
    IF ~exists THEN [status |-> "ok", keys |-> <<>>]
    ELSE SamplesKeys(samples, st)

\* plotting.py list_samples
list_samples(exists, samples, st) ==
    IF ~exists THEN [status |-> "ok", keys |-> <<>>]
    ELSE IF ~samples THEN [status |-> "ok", keys |-> <<>>]
    ELSE SamplesKeys(samples, st)

RECURSIVE PlotLoop(_, _, _)
\* the for loop of plot_samples, lines 45-58
PlotLoop(st, selected, acc) ==
    IF selected = <<>> THEN [acc EXCEPT !.status = "shown"]
    ELSE LET sample == Head(selected) IN
         IF ~GroupExists(st, sample)
         THEN PlotLoop(st, Tail(selected),
                       [acc EXCEPT !.warnings = Append(@, sample)])
         ELSE LET group == st[sample] IN
              IF "Wavelengths" \notin DOMAIN group.ds
                 \/ "Absorption" \notin DOMAIN group.ds
              THEN [acc EXCEPT !.status = "KeyError"]
              ELSE PlotLoop(st, Tail(selected),
                            [acc EXCEPT !.series = Append(@,
                                [label |-> sample,
                                 x |-> group.ds["Wavelengths"],
                                 y |-> group.ds["Absorption"]])])

\* plotting.py plot_samples
plot_samples(exists, st, selected) ==
    IF ~exists
    THEN [status |-> "No database found", selected |-> selected,
          series |-> <<>>, warnings |-> <<>>]
    ELSE PlotLoop(st, selected,
                  [status |-> "running", selected |-> selected,
                   series |-> <<>>, warnings |-> <<>>])

\* ------------------------------------------------------------------- Init
\* the container as pull_latest_hdf5 leaves it or as a caller hands it in:
\* absent, without the samples group, or holding spectrophotometer samples
Init ==
    /\ \E K \in SUBSET AllKeys, e \in BOOLEAN, s \in BOOLEAN :
          /\ s => e
          /\ K # {} => s
          /\ fileExists = e
          /\ hasSamples = s
          /\ store = [k \in K |-> SpectroSample(k)]
    /\ pc = "idle"
    /\ data_type = "3"
    /\ columns = {}
    /\ timestamp = ""
    /\ intensities = <<>>
    /\ added_samples = <<>>
    /\ metadata_updates = FALSE
    /\ store0 = {}
    /\ firstNew = <<>>
    /\ skipReported = FALSE
    /\ pairWritten = FALSE
    /\ listResult = NotCalled
    /\ plotResult = NotCalled

\* ------------------------------------------------- add_samples_from_csv
\* history of the rows: `key` is appended when it is new to the container
\* as the run found it and to the rows read before
NoteRow(new, stored, key) ==
    IF key \in stored \/ key \in Range(new) THEN new ELSE Append(new, key)

\* the loop over a DataFrame is left: its variables are dead
LocalsGone ==
    /\ columns' = {}
    /\ timestamp' = ""
    /\ intensities' = <<>>

\* an exception leaves the with block (h5py closes the file, keeping what
\* was written) and propagates to the caller: nothing is returned
Raise(exception) ==
    /\ pc' = exception
    /\ LocalsGone
    /\ added_samples' = <<>>
    /\ metadata_updates' = FALSE
    /\ store0' = {}
    /\ firstNew' = <<>>
    /\ skipReported' = FALSE
    /\ pairWritten' = FALSE

\* lines 42-49: open the container in append mode, ensure /samples
Start ==
    /\ pc = "idle"
    /\ \E dt \in DataTypes : data_type' = dt
    /\ fileExists' = TRUE
    /\ hasSamples' = TRUE
    /\ store0' = DOMAIN store
    /\ added_samples' = <<>>
    /\ metadata_updates' = FALSE
    /\ firstNew' = <<>>
    /\ skipReported' = FALSE
    /\ pairWritten' = FALSE
    /\ pc' = "files"
    /\ listResult' = NotCalled
    /\ plotResult' = NotCalled
    /\ UNCHANGED <<store, columns, timestamp, intensities>>

\* lines 51-55, data_type == "3": the next CSV file is read
NextCsvAS7341 ==
    /\ pc = "files" /\ data_type = "3"
    /\ \E cols \in Layouts : columns' = cols
    /\ pc' = "rows"
    /\ UNCHANGED <<containerVars, data_type, timestamp, intensities,
                   added_samples, metadata_updates, store0, firstNew,
                   skipReported, pairWritten, listResult, plotResult>>

\* lines 51-54, any other data_type: the file is announced and not read
NextCsvOther ==
    /\ pc = "files" /\ data_type # "3"
    /\ UNCHANGED vars

\* line 57 on a file without a "time" column: row["time"] raises KeyError
RowNoTime ==
    /\ pc = "rows"
    /\ "time" \notin columns
    /\ Raise("KeyError")
    /\ UNCHANGED <<containerVars, data_type, listResult, plotResult>>

\* lines 57-62: the row's group is already there, the row is skipped
RowDuplicate ==
    /\ pc = "rows"
    /\ "time" \in columns
    /\ \E t \in Times, v \in Readings :
          LET row == Row(t, v, columns) IN
          /\ GroupExists(store, Str(row["time"]))
          /\ timestamp' = Str(row["time"])
          /\ firstNew' = NoteRow(firstNew, store0, Str(row["time"]))
    /\ skipReported' = TRUE
    /\ UNCHANGED <<containerVars, pc, data_type, columns, intensities,
                   added_samples, metadata_updates, store0, pairWritten,
                   listResult, plotResult>>

\* lines 57-69 on a new key in a file lacking a channel column: the lookup
\* of that column raises KeyError
RowMalformed ==
    /\ pc = "rows"
    /\ "time" \in columns
    /\ ~(Range(ChannelColumns) \subseteq columns)
    /\ \E t \in Times, v \in Readings :
          LET row == Row(t, v, columns) IN
          /\ ~GroupExists(store, Str(row["time"]))
    /\ Raise("KeyError")
    /\ UNCHANGED <<containerVars, data_type, listResult, plotResult>>

\* lines 57-69 on a new key: timestamp and intensities are extracted
RowAccepted ==
    /\ pc = "rows"
    /\ "time" \in columns
    /\ Range(ChannelColumns) \subseteq columns
    /\ \E t \in Times, v \in Readings :
          LET row == Row(t, v, columns) IN
          /\ ~GroupExists(store, Str(row["time"]))
          /\ timestamp' = Str(row["time"])
          /\ firstNew' = NoteRow(firstNew, store0, Str(row["time"]))
          /\ intensities' = ExtractIntensities(row)
    /\ pc' = "create_group"
    /\ UNCHANGED <<containerVars, data_type, columns, added_samples,
                   metadata_updates, store0, skipReported, pairWritten,
                   listResult, plotResult>>

\* line 71: create_group raises ValueError when the name is taken
CreateGroup ==
    /\ pc = "create_group"
    /\ IF timestamp \in DOMAIN store
       THEN /\ Raise("ValueError")
            /\ store' = store
       ELSE /\ pc' = "create_wavelengths"
            /\ store' = Put(store, timestamp, EmptyGroup)
            /\ UNCHANGED <<columns, timestamp, intensities, added_samples,
                           metadata_updates, store0, firstNew, skipReported,
                           pairWritten>>
    /\ UNCHANGED <<fileExists, hasSamples, data_type, listResult, plotResult>>

\* line 72
CreateWavelengths ==
    /\ pc = "create_wavelengths"
    /\ store' = [store EXCEPT ![timestamp] =
                    CreateDataset(@, "Wavelengths", AS7341_WAVELENGTHS)]
    /\ pc' = "create_intensities"
    /\ UNCHANGED <<fileExists, hasSamples, data_type, columns, timestamp,
                   intensities, added_samples, metadata_updates, store0,
                   firstNew, skipReported, pairWritten, listResult,
                   plotResult>>

\* line 73
CreateIntensities ==
    /\ pc = "create_intensities"
    /\ store' = [store EXCEPT ![timestamp] =
                    CreateDataset(@, "Intensities", intensities)]
    /\ pc' = "set_timestamp"
    /\ UNCHANGED <<fileExists, hasSamples, data_type, columns, timestamp,
                   intensities, added_samples, metadata_updates, store0,
                   firstNew, skipReported, pairWritten, listResult,
                   plotResult>>

\* line 75
SetTimestamp ==
    /\ pc = "set_timestamp"
    /\ store' = [store EXCEPT ![timestamp] = SetAttr(@, "Timestamp", timestamp)]
    /\ pc' = "ask_metadata"
    /\ UNCHANGED <<fileExists, hasSamples, data_type, columns, timestamp,
                   intensities, added_samples, metadata_updates, store0,
                   firstNew, skipReported, pairWritten, listResult,
                   plotResult>>

\* lines 85-87 and 97, then 76-79: the user declines, add_metadata returns
\* False, the sample is recorded as added
MetaDeclined ==
    /\ pc = "ask_metadata"
    /\ \E a \in Answers :
          /\ StripLower(a) # "y"
          /\ metadata_updates' =
                (metadata_updates \/ AddMetadataReturn(StripLower(a)))
    /\ added_samples' = AppendSample(added_samples, timestamp)
    /\ pc' = "rows"
    /\ UNCHANGED <<containerVars, data_type, columns, timestamp, intensities,
                   store0, firstNew, skipReported, pairWritten, listResult,
                   plotResult>>

\* lines 85-88: the user answers y, the key/value loop starts
MetaAccepted ==
    /\ pc = "ask_metadata"
    /\ \E a \in Answers : StripLower(a) = "y"
    /\ pc' = "metadata_loop"
    /\ UNCHANGED <<containerVars, data_type, columns, timestamp, intensities,
                   added_samples, metadata_updates, store0, firstNew,
                   skipReported, pairWritten, listResult, plotResult>>

\* lines 89-95: a non-empty key and its value are written as an attribute
MetaPair ==
    /\ pc = "metadata_loop"
    /\ \E key \in MetaKeys, value \in MetaValues :
          store' = [store EXCEPT ![timestamp] = SetAttr(@, key, value)]
    /\ pairWritten' = TRUE
    /\ UNCHANGED <<fileExists, hasSamples, pc, data_type, columns, timestamp,
                   intensities, added_samples, metadata_updates, store0,
                   firstNew, skipReported, listResult, plotResult>>

\* lines 89-91 and 96, then 76-79: the empty key ends the loop, add_metadata
\* returns, the sample is recorded as added
MetaStop ==
    /\ pc = "metadata_loop"
    /\ metadata_updates' = (metadata_updates \/ AddMetadataReturn("y"))
    /\ added_samples' = AppendSample(added_samples, timestamp)
    /\ pc' = "rows"
    /\ UNCHANGED <<containerVars, data_type, columns, timestamp, intensities,
                   store0, firstNew, skipReported, pairWritten, listResult,
                   plotResult>>

\* line 56: the DataFrame is exhausted, back to the loop over files; df,
\* timestamp and intensities are assigned again before they are read again
EndCsv ==
    /\ pc = "rows"
    /\ pc' = "files"
    /\ LocalsGone
    /\ UNCHANGED <<containerVars, data_type, added_samples, metadata_updates,
                   store0, firstNew, skipReported, pairWritten, listResult,
                   plotResult>>

\* line 81: the files are exhausted, the with block closes the container
\* and (added_samples, metadata_updates) is returned
Return ==
    /\ pc = "files"
    /\ pc' = "returned"
    /\ UNCHANGED <<containerVars, data_type, columns, timestamp, intensities,
                   added_samples, metadata_updates,
                   store0, firstNew, skipReported, pairWritten, listResult,
                   plotResult>>

\* Ctrl-C while the with block is open (the prompts of add_metadata block on
\* input): KeyboardInterrupt leaves the with block, which closes the file
\* with whatever has been written to it
Interrupt ==
    /\ ~Closed
    /\ Raise("KeyboardInterrupt")
    /\ UNCHANGED <<containerVars, data_type, listResult, plotResult>>

\* script.py has ended, by its last line or by the exception: nothing of
\* the ingest run is left but the container, and either program can be
\* started on it
ScriptExit ==
    /\ Closed /\ pc # "idle"
    /\ pc' = "idle"
    /\ data_type' = "3"
    /\ added_samples' = <<>>
    /\ metadata_updates' = FALSE
    /\ store0' = {}
    /\ firstNew' = <<>>
    /\ skipReported' = FALSE
    /\ pairWritten' = FALSE
    /\ UNCHANGED <<containerVars, columns, timestamp, intensities,
                   listResult, plotResult>>

\* ------------------------------------------------------------ plotting.py
\* available_samples = list_samples(HDF5_FILE), first thing in plotting.py
ListSamples ==
    /\ pc = "idle"
    /\ listResult = NotCalled /\ plotResult = NotCalled
    /\ listResult' = list_samples(fileExists, hasSamples, store)
    /\ plotResult' = NotCalled
    /\ UNCHANGED <<containerVars, pc, data_type, columns, timestamp,
                   intensities, added_samples, metadata_updates, store0,
                   firstNew, skipReported, pairWritten>>

Selections ==
    UNION {[1..n -> AllKeys] : n \in 0..MaxSel}

\* plot_samples(HDF5_FILE, selected_samples), last thing in plotting.py
PlotSamples ==
    /\ pc = "idle"
    /\ plotResult = NotCalled
    /\ \E selected \in Selections :
          plotResult' = plot_samples(fileExists, store, selected)
    /\ listResult' = NotCalled
    /\ UNCHANGED <<containerVars, pc, data_type, columns, timestamp,
                   intensities, added_samples, metadata_updates, store0,
                   firstNew, skipReported, pairWritten>>

Next ==
    \/ Start
    \/ NextCsvAS7341
    \/ NextCsvOther
    \/ RowNoTime
    \/ RowDuplicate
    \/ RowMalformed
    \/ RowAccepted
    \/ CreateGroup
    \/ CreateWavelengths
    \/ CreateIntensities
    \/ SetTimestamp
    \/ MetaDeclined
    \/ MetaAccepted
    \/ MetaPair
    \/ MetaStop
    \/ EndCsv
    \/ Return
    \/ Interrupt
    \/ ScriptExit
    \/ ListSamples
    \/ PlotSamples

Spec == Init /\ [][Next]_vars

\* ------------------------------------------------------------ properties
\* a group that holds all of a sample: the wavelength axis, one signal
\* variant and the Timestamp attribute
Complete(group) ==
    /\ "Wavelengths" \in DOMAIN group.ds
    /\ \/ "Intensities" \in DOMAIN group.ds
       \/ {"Absorption", "Transmission"} \subseteq DOMAIN group.ds
    /\ "Timestamp" \in DOMAIN group.attrs

SignalNames == {"Intensities", "Absorption", "Transmission"}

WritePhases == {"create_wavelengths", "create_intensities", "set_timestamp",
                "ask_metadata", "metadata_loop"}

PlotCalled == plotResult.status # "not called"

\* C1: a row whose key is already stored (by an earlier run or an earlier
\* row of the batch) is skipped: the step leaves the store and the list of
\* inserted keys as they are and goes on to the next row; and no step ever
\* removes a stored sample or changes one other than the sample the running
\* batch is in the middle of writing.
C1_DuplicateIsSkip ==
    [][ /\ ( /\ pc = "rows"
             /\ pc' \in {"rows", "create_group"}
             /\ timestamp' \in DOMAIN store )
           => ( /\ store' = store
                /\ Cardinality(DOMAIN store') = Cardinality(DOMAIN store)
                /\ added_samples' = added_samples
                /\ pc' = "rows" )
        /\ \A k \in DOMAIN store :
              /\ k \in DOMAIN store'
              /\ store'[k] # store[k]
                    => ( /\ pc \in WritePhases
                         /\ k = timestamp
                         /\ k \notin store0
                         /\ k \notin Range(added_samples) )
      ]_vars

\* C1 witness: a run has inserted two samples and then met a row repeating
\* the first of them, in a container that held a sample of an earlier
\* ingest run when it was opened.
C1_Witness ==
    /\ pc = "rows" /\ skipReported
    /\ Len(added_samples) > 1
    /\ timestamp = added_samples[1]
    /\ \E k \in store0 : "Intensities" \in DOMAIN store[k].ds

\* C2: a batch with a malformed row (a required column is missing) does not
\* raise to the caller: no ingest run ends in the KeyError of the lookup.
C2_MalformedRowDoesNotRaise == pc # "KeyError"

\* C3: when ingest returns, the returned list holds exactly the keys of the
\* rows that were not stored when they came, in row order, and the store
\* has grown by the length of that list.
C3_ReturnsInsertedKeysInOrder ==
    pc = "returned" =>
        /\ added_samples = firstNew
        /\ Cardinality(DOMAIN store) = Cardinality(store0) + Len(added_samples)

\* C3 witness: a run on a store that held T2 alone has reported a skip and
\* returned [T1, T3].
C3_Witness ==
    /\ pc = "returned"
    /\ store0 = {Str(2)}
    /\ skipReported
    /\ added_samples = <<Str(1), Str(3)>>

\* C4: whenever the container is closed (a batch ended, failed or was
\* interrupted), every sample group in it holds Wavelengths, a signal
\* dataset and the Timestamp attribute.
C4_NeverPartialSample ==
    Closed => \A k \in DOMAIN store : Complete(store[k])

\* the requested keys that are in the store
Present == Range(plotResult.selected) \cap DOMAIN store

\* C5: when every requested sample that is in the store is a complete one,
\* plot_samples loads each of them: its wavelengths with the signal it holds.
C5_LoadReturnsStoredSignal ==
    (PlotCalled /\ fileExists /\ \A k \in Present : Complete(store[k])) =>
        \A k \in Present :
            \E i \in DOMAIN plotResult.series :
                /\ plotResult.series[i].label = k
                /\ plotResult.series[i].x = store[k].ds["Wavelengths"]
                /\ \E d \in SignalNames \cap DOMAIN store[k].ds :
                      plotResult.series[i].y = store[k].ds[d]

\* C6: the flag ingest returns is true exactly when the metadata loop wrote
\* at least one key/value pair during the batch.
C6_FlagIffPairWritten ==
    pc = "returned" => (metadata_updates <=> pairWritten)

\* C7: a plot_samples call with a requested key that is absent, on a store
\* of complete samples, does not fail: it warns about every absent key,
\* leaves them out of the result and processes every other requested key.
C7_MissingKeysOnlyWarn ==
    ( /\ PlotCalled /\ fileExists
      /\ Range(plotResult.selected) \ DOMAIN store # {}
      /\ \A k \in DOMAIN store : Complete(store[k]) ) =>
        /\ plotResult.status = "shown"
        /\ plotResult.warnings =
              SelectSeq(plotResult.selected, LAMBDA k : k \notin DOMAIN store)
        /\ [i \in DOMAIN plotResult.series |-> plotResult.series[i].label] =
              SelectSeq(plotResult.selected, LAMBDA k : k \in DOMAIN store)

\* C8: list_samples returns the empty list, without failing, when the
\* container file does not exist, when it has no samples group and when the
\* samples group is empty.
C8_EmptyStoreListsNothing ==
    (listResult.status # "not called"
        /\ (~fileExists \/ ~hasSamples \/ DOMAIN store = {})) =>
            (listResult.status = "ok" /\ listResult.keys = <<>>)

\* C8 witness: list_samples was called on a file without the samples group.
C8_Witness ==
    /\ listResult.status = "ok"
    /\ fileExists /\ ~hasSamples

\* C9: when ingest returns, every sample it inserted carries a Timestamp
\* attribute equal to its key.
C9_TimestampEqualsKey ==
    pc = "returned" =>
        \A k \in Range(added_samples) :
            /\ "Timestamp" \in DOMAIN store[k].attrs
            /\ store[k].attrs["Timestamp"] = k

\* C10: every signal dataset in the store comes with a Wavelengths dataset
\* of the same length.
C10_SignalLengthEqualsWavelengths ==
    \A k \in DOMAIN store :
        \A d \in SignalNames \cap DOMAIN store[k].ds :
            /\ "Wavelengths" \in DOMAIN store[k].ds
            /\ Len(store[k].ds[d]) = Len(store[k].ds["Wavelengths"])

\* C10 witness: a returned run has stored an AS7341 sample.
C10_Witness ==
    /\ pc = "returned"
    /\ added_samples # <<>>
    /\ \A k \in Range(added_samples) :
          /\ "Intensities" \in DOMAIN store[k].ds
          /\ Len(store[k].ds["Intensities"]) = Len(AS7341_WAVELENGTHS)

====
